---- MODULE Spec2Model ----
(***************************************************************************)
(* Model of src/db.js: redundant persistence of posts over three           *)
(* PostgreSQL-compatible connection pools.                                 *)
(*                                                                         *)
(*   savePosts(posts)      fan-out write, one async branch per pool,       *)
(*                         joined by Promise.allSettled                    *)
(*   isGuidExists(guid)    primary query, then a sequential scan of the    *)
(*                         fallback pools                                  *)
(*                                                                         *)
(* A statement sent to a pool (dbPool.query) is one atomic step of the     *)
(* database: it either completes or throws.  Whether it may throw is the   *)
(* environment's choice, described per pool by `health`.                   *)
(*                                                                         *)
(* Specifications:                                                         *)
(*   Spec        one savePosts call, any statement of which may throw      *)
(*   SpecStable  the same batch written repeatedly, pools healthy or down  *)
(*   SpecConc    two savePosts calls in flight at once                     *)
(*   SpecRead    isGuidExists on databases of any contents                 *)
(***************************************************************************)
EXTENDS Integers, Sequences, FiniteSets, TLC

\* ------------------------------------------------------------- bounds
\* Longest batch handed to savePosts.
MaxBatch == 3
\* Number of savePosts calls made one after another in SpecStable.
MaxCalls == 2

\* ------------------------------------------------------ program constants
\* The three connection pools (lines 20, 29, 38), named as in allPools.
pool == "Aiven PostgreSQL"
cockroachPool == "CockroachDB"
neonPool == "Neon"
PoolNames == {pool, cockroachPool, neonPool}

\* Values of the guid column and of the other columns of a post (the title
\* stands for the eight columns that carry no constraint).  Every post
\* carries a guid: a NULL guid never conflicts under UNIQUE and is not
\* modelled.
Guids == {"g1", "g2"}
Titles == {"t1", "t2"}
Post == [guid : Guids, title : Titles]

\* What savePosts may be handed: an array of posts of some length, or
\* something that is not an array (isArray = FALSE in SavePostsCall).
RECURSIVE SeqsUpTo(_, _)
SeqsUpTo(S, n) ==
  IF n = 0 THEN {<< >>}
  ELSE LET shorter == SeqsUpTo(S, n - 1)
       IN shorter \cup {Append(s, x) : s \in {t \in shorter : Len(t) = n - 1}, x \in S}
Batches(n) == SeqsUpTo(Post, n)

\* The concurrent callers of savePosts.
Writers == {"w1", "w2"}

\* How a pool behaves: every statement completes, every statement throws,
\* or each statement may do either.
Health == {"up", "down", "flaky"}

VARIABLES
  allPools,      \* the registry: sequence of pool names (lines 47-51)
  health,        \* per pool: how its statements behave (environment)
  tables,        \* per pool: whether the posts table exists
  rows,          \* per pool: the rows of the posts table, in insertion order
  spPc,          \* per savePosts call: "idle", "running", "returned", "thrown"
  posts,         \* per savePosts call: its argument
  savePromises,  \* per savePosts call and pool: the branch of line 79
  issued,        \* per savePosts call and pool: the statements completed, in order
  inflight,      \* per savePosts call and pool: statements sent and not yet completed
  hist,          \* completed savePosts calls, oldest first
  ex,            \* the isGuidExists call: pc, guid, position in the scan, result
  qlog,          \* the queries isGuidExists has issued, in order, with results
  tc,            \* the testAllConnections call: pc, testPromises, returned value
  st,            \* the getAllDatabaseStats call: pc, statsPromises, returned value
  cl,            \* per closeAllConnections call: pc, closePromises
  endCalls       \* per pool: how many times end() was invoked on it

vars ==
  << allPools, health, tables, rows, spPc, posts, savePromises, issued, inflight,
     hist, ex, qlog, tc, st, cl, endCalls >>
dbVars == << tables, rows >>
spVars == << spPc, posts, savePromises, issued, inflight, hist >>
exVars == << ex, qlog >>
opVars == << tc, st, cl >>

\* ------------------------------------------------------------ database
\* The outcomes the environment allows for a statement sent to pool p:
\* TRUE completes, FALSE throws.  A pool on which end() was invoked rejects
\* every later query.
Outcomes(p) ==
  IF endCalls[p] > 0 THEN {FALSE}
  ELSE CASE health[p] = "up" -> {TRUE}
         [] health[p] = "down" -> {FALSE}
         [] OTHER -> BOOLEAN

HasGuid(rs, guid) == \E k \in DOMAIN rs : rs[k].guid = guid

\* Mutant: the conflict clause overwrites the stored row.
InsertRowUpdate(rs, post) ==
  IF HasGuid(rs, post.guid)
    THEN [k \in DOMAIN rs |-> IF rs[k].guid = post.guid THEN post ELSE rs[k]]
    ELSE Append(rs, post)
\* Mutant: guid is not unique, every insert adds a row.
InsertRowNoUnique(rs, post) ==
  Append(rs, post)
\* Lines 64 and 72-76: INSERT ... ON CONFLICT (guid) DO NOTHING on a table
\* whose guid column is UNIQUE.
InsertRow(rs, post) ==
  IF HasGuid(rs, post.guid) THEN rs ELSE Append(rs, post)

\* Lines 128 and 142: SELECT 1 FROM posts WHERE guid = $1 LIMIT 1, its
\* rowCount.
RowCount(rs, guid) ==
  IF HasGuid(rs, guid) THEN 1 ELSE 0

\* ------------------------------------------------------------ savePosts
NotLaunched == [pc |-> "none", i |-> 0, success |-> FALSE]
Launched == [pc |-> "create", i |-> 0, success |-> FALSE]

\* Mutant: the loop does not await its inserts; once the table is there all
\* of them are sent at once.
SentNoAwait(br, n) ==
  CASE br.pc = "create" -> 1
    [] br.pc = "insert" -> n - br.i + 1
    [] OTHER -> 0
\* Lines 84 and 88: await dbPool.query(...).  A branch that is at a
\* statement has sent that one statement and is suspended until it
\* completes; a settled branch has nothing in flight.
Sent(br, n) == IF br.pc \in {"create", "insert"} THEN 1 ELSE 0

\* Mutant: no early return on an empty argument.
EarlyReturnNever(isArray, ps) == FALSE
\* Line 54.
EarlyReturn(isArray, ps) == ~isArray \/ Len(ps) = 0

\* Lines 53-79 and 110: the call up to its await of Promise.allSettled; the
\* map of line 79 starts one branch per registered pool.
SavePostsCall(w, isArray, ps) ==
  /\ spPc[w] # "running"
  /\ posts' = [posts EXCEPT ![w] = ps]
  /\ issued' = [issued EXCEPT ![w] = [p \in PoolNames |-> << >>]]
  /\ IF EarlyReturn(isArray, ps)
       THEN /\ spPc' = [spPc EXCEPT ![w] = "returned"]
            /\ savePromises' = [savePromises EXCEPT ![w] = [p \in PoolNames |-> NotLaunched]]
            /\ hist' = Append(hist, [posts |-> ps, rows |-> rows,
                                     ok |-> {}, thrown |-> FALSE])
       ELSE /\ spPc' = [spPc EXCEPT ![w] = "running"]
            /\ savePromises' = [savePromises EXCEPT ![w] =
                 [p \in PoolNames |->
                    IF \E k \in DOMAIN allPools : allPools[k] = p
                      THEN Launched ELSE NotLaunched]]
            /\ hist' = hist
  /\ inflight' = [inflight EXCEPT ![w] =
                   [p \in PoolNames |-> Sent(savePromises'[w][p], Len(ps))]]
  /\ UNCHANGED << allPools, health, dbVars, exVars, opVars, endCalls >>

\* Mutant: the catch starts the branch over.
CaughtRetry(br) == [br EXCEPT !.pc = "create", !.i = 0]
\* Mutant: the catch reports the branch as a success.
CaughtAsSuccess(br) == [br EXCEPT !.pc = "done", !.success = TRUE]
\* Lines 103-106: a statement threw; the branch ends with success: false.
Caught(br) == [br EXCEPT !.pc = "done", !.success = FALSE]

\* Mutant: the loop stops one post early.
LoopAtStopsEarly(br, k, n) ==
  IF k < n THEN [br EXCEPT !.pc = "insert", !.i = k]
           ELSE [br EXCEPT !.pc = "done", !.i = k, !.success = TRUE]
\* Lines 87 and 99-102: the loop goes on with post k, or is over and the
\* branch ends with success: true.
LoopAt(br, k, n) ==
  IF k <= n THEN [br EXCEPT !.pc = "insert", !.i = k]
            ELSE [br EXCEPT !.pc = "done", !.i = k, !.success = TRUE]

\* Line 84: CREATE TABLE IF NOT EXISTS on pool p, in call w's branch.
CreateTable(w, p, ok) ==
  /\ savePromises[w][p].pc = "create"
  /\ ok \in Outcomes(p)
  /\ issued' = [issued EXCEPT ![w][p] = Append(@, [stmt |-> "create", k |-> 0, ok |-> ok])]
  /\ IF ok
       THEN /\ tables' = [tables EXCEPT ![p] = TRUE]
            /\ savePromises' = [savePromises EXCEPT ![w][p] = LoopAt(@, 1, Len(posts[w]))]
       ELSE /\ tables' = tables
            /\ savePromises' = [savePromises EXCEPT ![w][p] = Caught(@)]
  /\ inflight' = [inflight EXCEPT ![w][p] =
                   Sent(savePromises'[w][p], Len(posts[w]))]
  /\ UNCHANGED << allPools, health, rows, spPc, posts, hist, exVars, opVars, endCalls >>

\* Lines 87-99: the insert of posts[i] on pool p.  The statement throws when
\* the pool fails it, or when the table is missing.
Insert(w, p, ok) ==
  /\ savePromises[w][p].pc = "insert"
  /\ ok \in Outcomes(p)
  /\ LET br == savePromises[w][p]
         done == ok /\ tables[p]
     IN /\ issued' = [issued EXCEPT ![w][p] =
                        Append(@, [stmt |-> "insert", k |-> br.i, ok |-> done])]
        /\ IF done
             THEN /\ rows' = [rows EXCEPT ![p] = InsertRow(@, posts[w][br.i])]
                  /\ savePromises' = [savePromises EXCEPT ![w][p] =
                                        LoopAt(@, br.i + 1, Len(posts[w]))]
             ELSE /\ rows' = rows
                  /\ savePromises' = [savePromises EXCEPT ![w][p] = Caught(@)]
  /\ inflight' = [inflight EXCEPT ![w][p] =
                   Sent(savePromises'[w][p], Len(posts[w]))]
  /\ UNCHANGED << allPools, health, tables, spPc, posts, hist, exVars, opVars, endCalls >>

\* Lines 113-115.
successCount(w) ==
  Cardinality({k \in DOMAIN allPools :
                 /\ savePromises[w][allPools[k]].pc = "done"
                 /\ savePromises[w][allPools[k]].success})

\* Mutant: the join resolves as soon as one branch has settled.
AllSettledAny(w) ==
  \E k \in DOMAIN allPools : savePromises[w][allPools[k]].pc = "done"
\* Line 110: Promise.allSettled resolves when every branch has settled.
AllSettled(w) ==
  \A k \in DOMAIN allPools : savePromises[w][allPools[k]].pc = "done"

\* Mutant: the call returns even when no pool succeeded.
MustThrowNever(w) == FALSE
\* Mutant: the call fails as soon as one pool failed.
MustThrowOnAnyFailure(w) == successCount(w) < Len(allPools)
\* Line 120.
MustThrow(w) == successCount(w) = 0

\* Lines 110-123: the continuation after the await.
Join(w) ==
  /\ spPc[w] = "running"
  /\ AllSettled(w)
  /\ spPc' = [spPc EXCEPT ![w] = IF MustThrow(w) THEN "thrown" ELSE "returned"]
  /\ hist' = Append(hist, [posts |-> posts[w], rows |-> rows,
                           ok |-> {p \in PoolNames : savePromises[w][p].success},
                           thrown |-> MustThrow(w)])
  /\ UNCHANGED << allPools, health, dbVars, posts, savePromises, issued, inflight,
                  exVars, opVars, endCalls >>

\* --------------------------------------------------------- isGuidExists
\* What a SELECT on pool p gives isGuidExists: "failed" when the statement
\* throws (the pool is unreachable, or the posts table does not exist).
QueryResult(p, guid, ok) ==
  IF ok /\ tables[p]
    THEN IF RowCount(rows[p], guid) > 0 THEN "match" ELSE "nomatch"
    ELSE "failed"

\* Mutant: a query that threw is taken for a match.
FoundUnlessEmpty(res) == res # "nomatch"
\* Lines 132 and 145: res.rowCount > 0, evaluated only when the query
\* returned.
Found(res) == res = "match"

\* Mutant: the scan starts one pool too late.
FallbacksSkipOne == SubSeq(allPools, 3, Len(allPools))
\* Mutant: the scan runs over the fallbacks in reverse.
FallbacksReversed ==
  [k \in 1..(Len(allPools) - 1) |-> allPools[Len(allPools) + 1 - k]]
\* Line 140: allPools.slice(1).
Fallbacks == SubSeq(allPools, 2, Len(allPools))

\* Mutant: the loop header takes the primary off the registry itself.
SlicedInPlace == SubSeq(allPools, 2, Len(allPools))
\* Line 140: slice(1) copies; the registry is left as it was.
Sliced == allPools

\* Line 125: the call, up to its first await.
IsGuidExistsCall(g) ==
  /\ ex.pc = "idle"
  /\ ex' = [pc |-> "primary", guid |-> g, i |-> 0, ret |-> FALSE]
  /\ qlog' = << >>
  /\ UNCHANGED << allPools, health, dbVars, spVars, opVars, endCalls >>

\* Entering, or going on with, the loop of line 140 at fallback k; line 154
\* when the fallbacks are exhausted.
Scan(k) ==
  IF k <= Len(Fallbacks)
    THEN [ex EXCEPT !.pc = "fallback", !.i = k]
    ELSE [ex EXCEPT !.pc = "done", !.ret = FALSE]

\* Mutant: the catch throws the error on to the caller.
ExRethrown(k) == [ex EXCEPT !.pc = "thrown"]
\* Lines 135-137 and 149-151: the catch logs a warning and the function
\* goes on with fallback k.
ExCaught(k) == Scan(k)

\* Lines 127-137: the query on the primary pool.
QueryPrimary(ok) ==
  /\ ex.pc = "primary"
  /\ ok \in Outcomes(pool)
  /\ LET res == QueryResult(pool, ex.guid, ok)
     IN /\ qlog' = Append(qlog, [pool |-> pool, res |-> res])
        /\ ex' = IF Found(res)
                   THEN [ex EXCEPT !.pc = "done", !.ret = TRUE]
                   ELSE IF res = "failed" THEN ExCaught(1) ELSE Scan(1)
        /\ allPools' = IF Found(res) THEN allPools ELSE Sliced
  /\ UNCHANGED << health, dbVars, spVars, opVars, endCalls >>

\* Lines 140-152: the query on the next fallback pool.
QueryFallback(ok) ==
  /\ ex.pc = "fallback"
  /\ LET p == Fallbacks[ex.i]
         res == QueryResult(p, ex.guid, ok)
     IN /\ ok \in Outcomes(p)
        /\ qlog' = Append(qlog, [pool |-> p, res |-> res])
        /\ ex' = IF Found(res)
                   THEN [ex EXCEPT !.pc = "done", !.ret = TRUE]
                   ELSE IF res = "failed" THEN ExCaught(ex.i + 1)
                        ELSE Scan(ex.i + 1)
  /\ UNCHANGED << allPools, health, dbVars, spVars, opVars, endCalls >>

\* --------------------------------------------------- testAllConnections
TcIdle ==
  [pc |-> "idle",
   promises |-> [p \in PoolNames |-> [pc |-> "none", connected |-> FALSE]],
   ret |-> << >>]

\* Lines 158-163: the call up to its await of Promise.allSettled; the map
\* of line 161 starts one probe per registered pool.
TestAllConnectionsCall ==
  /\ tc.pc = "idle"
  /\ tc' = [pc |-> "running",
            promises |-> [p \in PoolNames |->
               IF \E k \in DOMAIN allPools : allPools[k] = p
                 THEN [pc |-> "query", connected |-> FALSE]
                 ELSE [pc |-> "none", connected |-> FALSE]],
            ret |-> << >>]
  /\ UNCHANGED << allPools, health, dbVars, spVars, exVars, st, cl, endCalls >>

\* Lines 162-169: SELECT 1 on pool p completes or throws; the branch
\* returns {name, connected: true} or {name, connected: false, error}.
Probe(p, ok) ==
  /\ tc.promises[p].pc = "query"
  /\ ok \in Outcomes(p)
  /\ tc' = [tc EXCEPT !.promises[p] = [pc |-> "done", connected |-> ok]]
  /\ UNCHANGED << allPools, health, dbVars, spVars, exVars, st, cl, endCalls >>

\* Lines 165 and 168: the value a probe branch returns.
TestValue(name, connected) ==
  IF connected
    THEN [name |-> name, connected |-> TRUE]
    ELSE [name |-> name, connected |-> FALSE, error |-> "message"]

\* Line 172: what Promise.allSettled(testPromises) resolves to, one
\* {status, value} object per promise, in the order of testPromises.
TestResults ==
  [k \in DOMAIN allPools |->
     [status |-> "fulfilled",
      value |-> TestValue(allPools[k], tc.promises[allPools[k]].connected)]]

\* Lines 172-178: the continuation after the await; line 178 returns
\* results as Promise.allSettled gave them.
TestJoin ==
  /\ tc.pc = "running"
  /\ \A k \in DOMAIN allPools : tc.promises[allPools[k]].pc = "done"
  /\ tc' = [tc EXCEPT !.pc = "returned", !.ret = TestResults]
  /\ UNCHANGED << allPools, health, dbVars, spVars, exVars, st, cl, endCalls >>

\* --------------------------------------------------- getAllDatabaseStats
\* A statsPromises branch: where it is, the outcomes of the queries it has
\* made, the count column as the driver returned it (decimal text) and the
\* newest created_at (<< >> when there is no row).
StNone == [pc |-> "none", log |-> << >>, count |-> << >>, latest |-> << >>]
StIdle == [pc |-> "idle", promises |-> [p \in PoolNames |-> StNone],
           order |-> << >>, ret |-> << >>]

\* COUNT(*) comes back as decimal text; line 192 parses it.
RECURSIVE Decimal(_)
Decimal(n) == IF n < 10 THEN << n >> ELSE Append(Decimal(n \div 10), n % 10)
RECURSIVE parseInt(_)
parseInt(ds) ==
  IF ds = << >> THEN 0
  ELSE 10 * parseInt(SubSeq(ds, 1, Len(ds) - 1)) + ds[Len(ds)]

\* Lines 182-187: the call up to its await of Promise.allSettled; the map
\* of line 185 starts one branch per registered pool.
GetAllDatabaseStatsCall ==
  /\ st.pc = "idle"
  /\ st' = [pc |-> "running",
            promises |-> [p \in PoolNames |->
               IF \E k \in DOMAIN allPools : allPools[k] = p
                 THEN [StNone EXCEPT !.pc = "count"] ELSE StNone],
            order |-> << >>, ret |-> << >>]
  /\ UNCHANGED << allPools, health, dbVars, spVars, exVars, tc, cl, endCalls >>

\* Line 187: SELECT COUNT(*) FROM posts on pool p; it throws when the pool
\* fails it or the table is missing, and the branch goes to the catch.
Count(p, ok) ==
  /\ st.promises[p].pc = "count"
  /\ ok \in Outcomes(p)
  /\ LET done == ok /\ tables[p]
     IN st' = [st EXCEPT
                 !.promises[p] =
                    IF done
                      THEN [@ EXCEPT !.pc = "latest", !.log = Append(@, TRUE),
                                     !.count = Decimal(Len(rows[p]))]
                      ELSE [@ EXCEPT !.pc = "done", !.log = Append(@, FALSE)],
                 !.order = IF done THEN @ ELSE Append(@, p)]
  /\ UNCHANGED << allPools, health, dbVars, spVars, exVars, tc, cl, endCalls >>

\* Line 188: SELECT created_at ... ORDER BY created_at DESC LIMIT 1; rows
\* are kept in insertion order, the newest is the last.
Latest(p, ok) ==
  /\ st.promises[p].pc = "latest"
  /\ ok \in Outcomes(p)
  /\ LET done == ok /\ tables[p]
     IN st' = [st EXCEPT
                 !.promises[p] =
                    [@ EXCEPT !.pc = "done", !.log = Append(@, done),
                              !.latest = IF done /\ rows[p] # << >>
                                           THEN << Len(rows[p]) >> ELSE << >>],
                 !.order = Append(@, p)]
  /\ UNCHANGED << allPools, health, dbVars, spVars, exVars, tc, cl, endCalls >>

\* Mutant: the catch reports a count of zero.
StatsValueZeroOnError(name, pr) ==
  IF \A k \in DOMAIN pr.log : pr.log[k]
    THEN [name |-> name, totalPosts |-> parseInt(pr.count),
          latestPost |-> pr.latest, status |-> "healthy"]
    ELSE [name |-> name, totalPosts |-> 0, latestPost |-> << >>,
          status |-> "error", error |-> "message"]
\* Lines 190-207: the value a settled branch returned, stats or the
\* sentinel of the catch.
StatsValue(name, pr) ==
  IF \A k \in DOMAIN pr.log : pr.log[k]
    THEN [name |-> name, totalPosts |-> parseInt(pr.count),
          latestPost |-> pr.latest, status |-> "healthy"]
    ELSE [name |-> name, totalPosts |-> -1, latestPost |-> << >>,
          status |-> "error", error |-> "message"]

\* Mutant: the snapshots are returned in the order the branches settled.
StatsReturnBySettling ==
  [k \in DOMAIN st.order |-> StatsValue(st.order[k], st.promises[st.order[k]])]
\* Lines 211-214: Promise.allSettled keeps the order of statsPromises; each
\* fulfilled result is unwrapped to its value.
StatsReturn ==
  [k \in DOMAIN allPools |-> StatsValue(allPools[k], st.promises[allPools[k]])]

\* Lines 211-214: the continuation after the await.
StatsJoin ==
  /\ st.pc = "running"
  /\ \A k \in DOMAIN allPools : st.promises[allPools[k]].pc = "done"
  /\ st' = [st EXCEPT !.pc = "returned", !.ret = StatsReturn]
  /\ UNCHANGED << allPools, health, dbVars, spVars, exVars, tc, cl, endCalls >>

\* --------------------------------------------------- closeAllConnections
\* The callers of closeAllConnections.
Closers == {"c1", "c2"}
\* A closePromises branch: where it is, which invocation of end() on its
\* pool it made (0 before it made one) and whether that end() resolved.
ClNone == [pc |-> "none", nth |-> 0, ok |-> FALSE]
ClIdle == [pc |-> "idle", promises |-> [p \in PoolNames |-> ClNone]]

\* Lines 218-224: the call up to its await of Promise.allSettled; each
\* branch of the map runs up to its await, so end() has been invoked on
\* every registered pool when the call suspends.
CloseAllConnectionsCall(c) ==
  /\ cl[c].pc = "idle"
  /\ endCalls' = [p \in PoolNames |->
                    IF \E k \in DOMAIN allPools : allPools[k] = p
                      THEN endCalls[p] + 1 ELSE endCalls[p]]
  /\ cl' = [cl EXCEPT ![c] =
              [pc |-> "running",
               promises |-> [p \in PoolNames |->
                  IF \E k \in DOMAIN allPools : allPools[k] = p
                    THEN [pc |-> "end", nth |-> endCalls'[p], ok |-> FALSE]
                    ELSE ClNone]]]
  /\ UNCHANGED << allPools, health, dbVars, spVars, exVars, tc, st >>

\* What end() can do: the driver rejects every end() after the first on a
\* pool; the first one resolves or rejects as the pool's database allows.
EndOutcomes(p, nth) ==
  IF nth > 1 THEN {FALSE}
  ELSE CASE health[p] = "up" -> {TRUE}
         [] health[p] = "down" -> {FALSE}
         [] OTHER -> BOOLEAN

\* Lines 222-227: end() of pool p settles; a rejection is caught and
\* logged, the branch is fulfilled either way.
End(c, p, ok) ==
  /\ cl[c].promises[p].pc = "end"
  /\ ok \in EndOutcomes(p, cl[c].promises[p].nth)
  /\ cl' = [cl EXCEPT ![c].promises[p] = [@ EXCEPT !.pc = "done", !.ok = ok]]
  /\ UNCHANGED << allPools, health, dbVars, spVars, exVars, tc, st, endCalls >>

\* Mutant: the call resumes as soon as one branch has settled.
CloseSettledAny(prs) ==
  \E k \in DOMAIN allPools : prs[allPools[k]].pc = "done"
\* Line 230: Promise.allSettled(closePromises) is settled.
CloseSettled(prs) ==
  \A k \in DOMAIN allPools : prs[allPools[k]].pc = "done"

\* Lines 230-231: the continuation after the await.
CloseJoin(c) ==
  /\ cl[c].pc = "running"
  /\ CloseSettled(cl[c].promises)
  /\ cl' = [cl EXCEPT ![c].pc = "returned"]
  /\ UNCHANGED << allPools, health, dbVars, spVars, exVars, tc, st, endCalls >>

\* A settled branch that reported success: true.
Succeeded(w, p) == savePromises[w][p].pc = "done" /\ savePromises[w][p].success
\* A settled branch that reported success: false.
Failed(w, p) == savePromises[w][p].pc = "done" /\ ~savePromises[w][p].success
Completed(w) == spPc[w] \in {"returned", "thrown"}

\* ------------------------------------------------------- specifications
\* The state after the module is loaded (lines 20-51), on databases that
\* hold `db`, with pools behaving as `h`.
InitWith(h, db) ==
  /\ allPools = << pool, cockroachPool, neonPool >>
  /\ health = h
  /\ tables = [p \in PoolNames |-> db[p].table]
  /\ rows = [p \in PoolNames |-> db[p].rows]
  /\ spPc = [w \in Writers |-> "idle"]
  /\ posts = [w \in Writers |-> << >>]
  /\ savePromises = [w \in Writers |-> [p \in PoolNames |-> NotLaunched]]
  /\ issued = [w \in Writers |-> [p \in PoolNames |-> << >>]]
  /\ inflight = [w \in Writers |-> [p \in PoolNames |-> 0]]
  /\ tc = TcIdle
  /\ st = StIdle
  /\ cl = [c \in Closers |-> ClIdle]
  /\ endCalls = [p \in PoolNames |-> 0]
  /\ hist = << >>
  /\ ex = [pc |-> "idle", guid |-> "g1", i |-> 0, ret |-> FALSE]
  /\ qlog = << >>

\* A database on which nothing was ever written.
Fresh == [table |-> FALSE, rows |-> << >>]
\* The contents a database can have after earlier writes, as far as
\* isGuidExists can tell them apart: no table, or a table holding rows of
\* distinct guids.
Stored ==
  {rs \in SeqsUpTo([guid : Guids, title : {"t1"}], Cardinality(Guids)) :
     \A j, k \in DOMAIN rs : j # k => rs[j].guid # rs[k].guid}
Contents ==
  {Fresh} \cup {[table |-> TRUE, rows |-> rs] : rs \in Stored}

\* One savePosts call on fresh databases, any statement of which may throw.
Init ==
  InitWith([p \in PoolNames |-> "flaky"], [p \in PoolNames |-> Fresh])

Next ==
  \/ /\ spPc["w1"] = "idle"
     /\ \/ \E ps \in Batches(MaxBatch) : SavePostsCall("w1", TRUE, ps)
        \/ SavePostsCall("w1", FALSE, << >>)
  \/ \E p \in PoolNames, ok \in BOOLEAN : CreateTable("w1", p, ok)
  \/ \E p \in PoolNames, ok \in BOOLEAN : Insert("w1", p, ok)
  \/ Join("w1")

Spec == Init /\ [][Next]_vars

\* isGuidExists on databases of any contents, queries failing at any point.
InitRead ==
  \E h \in [PoolNames -> Health], db \in [PoolNames -> Contents] : InitWith(h, db)

NextRead ==
  \/ \E g \in Guids : IsGuidExistsCall(g)
  \/ \E ok \in BOOLEAN : QueryPrimary(ok)
  \/ \E ok \in BOOLEAN : QueryFallback(ok)

SpecRead == InitRead /\ [][NextRead]_vars

\* savePosts called again and again with the same batch, on pools that are
\* each either healthy or unreachable for the whole run.
InitStable ==
  \E h \in [PoolNames -> {"up", "down"}] : InitWith(h, [p \in PoolNames |-> Fresh])

SameBatchAgain ==
  IF hist = << >> THEN Batches(MaxBatch) ELSE {hist[Len(hist)].posts}

NextStable ==
  \/ /\ spPc["w1"] # "running"
     /\ Len(hist) < MaxCalls
     /\ \E ps \in SameBatchAgain : SavePostsCall("w1", TRUE, ps)
  \/ \E p \in PoolNames, ok \in BOOLEAN : CreateTable("w1", p, ok)
  \/ \E p \in PoolNames, ok \in BOOLEAN : Insert("w1", p, ok)
  \/ Join("w1")

SpecStable == InitStable /\ [][NextStable]_vars

\* One testAllConnections call, on pools of any health.
InitProbe ==
  \E h \in [PoolNames -> Health] : InitWith(h, [p \in PoolNames |-> Fresh])

NextProbe ==
  \/ TestAllConnectionsCall
  \/ \E p \in PoolNames, ok \in BOOLEAN : Probe(p, ok)
  \/ TestJoin

SpecProbe == InitProbe /\ [][NextProbe]_vars

\* One getAllDatabaseStats call on databases of any contents, any query of
\* which may throw.
InitStats ==
  \E db \in [PoolNames -> Contents] : InitWith([p \in PoolNames |-> "flaky"], db)

NextStats ==
  \/ GetAllDatabaseStatsCall
  \/ \E p \in PoolNames, ok \in BOOLEAN : Count(p, ok)
  \/ \E p \in PoolNames, ok \in BOOLEAN : Latest(p, ok)
  \/ StatsJoin

SpecStats == InitStats /\ [][NextStats]_vars

\* closeAllConnections called by up to two callers, one after the other or
\* overlapping; a first end() may resolve or reject.
InitClose ==
  InitWith([p \in PoolNames |-> "flaky"], [p \in PoolNames |-> Fresh])

NextClose ==
  \/ \E c \in Closers : CloseAllConnectionsCall(c)
  \/ \E c \in Closers, p \in PoolNames, ok \in BOOLEAN : End(c, p, ok)
  \/ \E c \in Closers : CloseJoin(c)

SpecClose == InitClose /\ [][NextClose]_vars

\* Two savePosts calls in flight at once, each with a batch of one post, on
\* pools that are each either healthy or unreachable.
OnePost == {<< x >> : x \in Post}

InitConc ==
  \E h \in [PoolNames -> {"up", "down"}] : InitWith(h, [p \in PoolNames |-> Fresh])

NextConc ==
  \/ \E w \in Writers :
       /\ spPc[w] = "idle"
       /\ \E ps \in OnePost : SavePostsCall(w, TRUE, ps)
  \/ \E w \in Writers, p \in PoolNames, ok \in BOOLEAN : CreateTable(w, p, ok)
  \/ \E w \in Writers, p \in PoolNames, ok \in BOOLEAN : Insert(w, p, ok)
  \/ \E w \in Writers : Join(w)

SpecConc == InitConc /\ [][NextConc]_vars

\* Every operation of the module, each called once, on pools that are each
\* healthy or unreachable. The caller awaits each call before it makes the
\* next, in any order; a pool that was ended fails every later query.
Busy ==
  \/ spPc["w1"] = "running"
  \/ ex.pc \in {"primary", "fallback"}
  \/ tc.pc = "running"
  \/ st.pc = "running"
  \/ cl["c1"].pc = "running"

InitAll ==
  \E h \in [PoolNames -> {"up", "down"}] : InitWith(h, [p \in PoolNames |-> Fresh])

NextAll ==
  \/ /\ ~Busy
     /\ spPc["w1"] = "idle"
     /\ \E ps \in OnePost : SavePostsCall("w1", TRUE, ps)
  \/ \E p \in PoolNames, ok \in BOOLEAN : CreateTable("w1", p, ok)
  \/ \E p \in PoolNames, ok \in BOOLEAN : Insert("w1", p, ok)
  \/ Join("w1")
  \/ ~Busy /\ \E g \in Guids : IsGuidExistsCall(g)
  \/ \E ok \in BOOLEAN : QueryPrimary(ok)
  \/ \E ok \in BOOLEAN : QueryFallback(ok)
  \/ ~Busy /\ TestAllConnectionsCall
  \/ \E p \in PoolNames, ok \in BOOLEAN : Probe(p, ok)
  \/ TestJoin
  \/ ~Busy /\ GetAllDatabaseStatsCall
  \/ \E p \in PoolNames, ok \in BOOLEAN : Count(p, ok)
  \/ \E p \in PoolNames, ok \in BOOLEAN : Latest(p, ok)
  \/ StatsJoin
  \/ ~Busy /\ CloseAllConnectionsCall("c1")
  \/ \E p \in PoolNames, ok \in BOOLEAN : End("c1", p, ok)
  \/ CloseJoin("c1")

SpecAll == InitAll /\ [][NextAll]_vars

\* One savePosts call and, once it is over, one isGuidExists call; any
\* statement of the write and any query of the read may throw.
MaxWritten == 2

InitWriteRead ==
  InitWith([p \in PoolNames |-> "flaky"], [p \in PoolNames |-> Fresh])

NextWriteRead ==
  \/ /\ spPc["w1"] = "idle"
     /\ \E ps \in Batches(MaxWritten) \ {<< >>} : SavePostsCall("w1", TRUE, ps)
  \/ \E p \in PoolNames, ok \in BOOLEAN : CreateTable("w1", p, ok)
  \/ \E p \in PoolNames, ok \in BOOLEAN : Insert("w1", p, ok)
  \/ Join("w1")
  \/ Completed("w1") /\ \E g \in Guids : IsGuidExistsCall(g)
  \/ \E ok \in BOOLEAN : QueryPrimary(ok)
  \/ \E ok \in BOOLEAN : QueryFallback(ok)

SpecWriteRead == InitWriteRead /\ [][NextWriteRead]_vars

\* =============================================================== claims
\* C1: savePosts on a non-empty batch throws if and only if no pool completed
\* the batch; with at least one successful pool it returns normally, however
\* many of the others failed.
InvC1 ==
  \A w \in Writers :
    /\ spPc[w] = "thrown" =>
         posts[w] # << >> /\ ~\E p \in PoolNames : Succeeded(w, p)
    /\ (spPc[w] = "returned" /\ posts[w] # << >>) =>
         \E p \in PoolNames : Succeeded(w, p)

\* C1 witness: the call returned although two of the three pools failed.
WitC1 ==
  /\ spPc["w1"] = "returned"
  /\ Succeeded("w1", neonPool)
  /\ Failed("w1", pool)
  /\ Failed("w1", cockroachPool)

\* C2: a pool's outcome is success: true exactly when its schema statement
\* and every insert of the batch completed, whatever happened on the other
\* pools.
InvC2 ==
  \A w \in Writers, p \in PoolNames :
    savePromises[w][p].pc = "done" =>
      (savePromises[w][p].success <=>
         /\ Len(issued[w][p]) = Len(posts[w]) + 1
         /\ \A k \in DOMAIN issued[w][p] : issued[w][p][k].ok)

\* C2 witness: the primary completed a batch of three posts while
\* CockroachDB threw on every statement it was sent; the call returned.
WitC2 ==
  /\ spPc["w1"] = "returned"
  /\ Len(posts["w1"]) = 3
  /\ Succeeded("w1", pool)
  /\ Failed("w1", cockroachPool)
  /\ \A k \in DOMAIN issued["w1"][cockroachPool] : ~issued["w1"][cockroachPool][k].ok

\* C3: savePosts with an empty batch returns without error and sends no
\* statement to any pool.
InvC3 ==
  \A w \in Writers :
    (spPc[w] # "idle" /\ posts[w] = << >>) =>
      /\ spPc[w] = "returned"
      /\ \A p \in PoolNames : issued[w][p] = << >> /\ savePromises[w][p].pc = "none"

\* C3 witness: an empty batch returned while every pool was unreachable.
WitC3 ==
  /\ spPc["w1"] = "returned"
  /\ posts["w1"] = << >>
  /\ hist # << >>
  /\ \A p \in PoolNames : health[p] = "down" /\ issued["w1"][p] = << >>

\* C4: when savePosts returns or throws, every pool's branch has settled:
\* it sent the whole batch, or it stopped at a statement that threw.
InvC4 ==
  \A w \in Writers :
    (Completed(w) /\ posts[w] # << >>) =>
      \A k \in DOMAIN allPools :
        LET p == allPools[k]
            sent == issued[w][p]
        IN /\ savePromises[w][p].pc = "done"
           /\ sent # << >>
           /\ \/ Len(sent) = Len(posts[w]) + 1 /\ sent[Len(sent)].ok
              \/ ~sent[Len(sent)].ok

\* C4 witness: the primary failed on its first statement, CockroachDB went
\* on to complete three posts and Neon failed on the last insert, all
\* before the call returned.
WitC4 ==
  /\ spPc["w1"] = "returned"
  /\ Len(posts["w1"]) = 3
  /\ Len(issued["w1"][pool]) = 1 /\ Failed("w1", pool)
  /\ Len(issued["w1"][cockroachPool]) = 4 /\ Succeeded("w1", cockroachPool)
  /\ Len(issued["w1"][neonPool]) = 4 /\ Failed("w1", neonPool)

\* C5: a healthy pool holds the same rows after the same batch was written
\* a second time as after it was written once.
InvC5 ==
  \A j \in DOMAIN hist, p \in PoolNames :
    (j > 1 /\ health[p] = "up" /\ hist[j].posts = hist[j - 1].posts) =>
      hist[j].rows[p] = hist[j - 1].rows[p]

\* C5 witness: a batch of three posts naming two guids was written twice
\* and the primary holds two rows.
WitC5 ==
  /\ Len(hist) = 2
  /\ Len(hist[2].posts) = 3
  /\ hist[2].posts = hist[1].posts
  /\ pool \in hist[1].ok /\ pool \in hist[2].ok
  /\ Len(hist[2].rows[pool]) = 2

\* C6: each pool stores at most one row per guid in every reachable state
\* of concurrent savePosts calls ...
UniqueGuid ==
  \A p \in PoolNames :
    \A j, k \in DOMAIN rows[p] : j # k => rows[p][j].guid # rows[p][k].guid
\* ... and an insert of a guid the pool already stores changes no row and
\* does not fail the branch.
DupInsertNoop ==
  \A w \in Writers, p \in PoolNames :
    (/\ savePromises[w][p].pc = "insert"
     /\ issued'[w][p] # issued[w][p]
     /\ health[p] = "up"
     /\ HasGuid(rows[p], posts[w][savePromises[w][p].i].guid)) =>
      /\ rows'[p] = rows[p]
      /\ ~(savePromises'[w][p].pc = "done" /\ ~savePromises'[w][p].success)
ThmC6 == []UniqueGuid /\ [][DupInsertNoop]_vars

\* C6 witness: two concurrent calls wrote the same guid with different
\* titles; both succeeded on the primary and on CockroachDB, each pool holds
\* one row, and the two pools kept different titles.
WitC6 ==
  /\ spPc["w1"] = "returned" /\ spPc["w2"] = "returned"
  /\ posts["w1"][1].guid = posts["w2"][1].guid
  /\ posts["w1"][1].title # posts["w2"][1].title
  /\ Succeeded("w1", pool) /\ Succeeded("w2", pool)
  /\ Succeeded("w1", cockroachPool) /\ Succeeded("w2", cockroachPool)
  /\ rows[pool] = << posts["w1"][1] >>
  /\ rows[cockroachPool] = << posts["w2"][1] >>

\* C7: when a batch names a guid more than once and the pool did not store
\* it before, a healthy pool ends with exactly one row for that guid, holding
\* the fields of its first occurrence in the batch.
InvC7 ==
  \A j \in DOMAIN hist, p \in PoolNames, g \in Guids :
    LET ps == hist[j].posts
        before == IF j = 1 THEN << >> ELSE hist[j - 1].rows[p]
        after == hist[j].rows[p]
        occ == {k \in DOMAIN ps : ps[k].guid = g}
    IN (health[p] = "up" /\ Cardinality(occ) > 1 /\ ~HasGuid(before, g)) =>
         /\ Cardinality({k \in DOMAIN after : after[k].guid = g}) = 1
         /\ \A k \in DOMAIN after :
              after[k].guid = g =>
                after[k] = ps[CHOOSE f \in occ : \A o \in occ : f <= o]

\* C7 witness: posts #1 and #3 of a batch of three share a guid and differ
\* in title; the primary holds two rows, the shared guid with #1's title.
WitC7 ==
  /\ Len(hist) = 1
  /\ hist[1].posts = << [guid |-> "g1", title |-> "t1"],
                        [guid |-> "g2", title |-> "t1"],
                        [guid |-> "g1", title |-> "t2"] >>
  /\ health[pool] = "up"
  /\ rows[pool] = << [guid |-> "g1", title |-> "t1"], [guid |-> "g2", title |-> "t1"] >>

\* C8: isGuidExists returns true whenever a fallback pool stores the guid
\* and its query does not throw, whether the primary answered without a
\* match or threw, and whatever fallbacks threw before it.
InvC8 ==
  (ex.pc = "done" /\
   \E k \in DOMAIN allPools :
     /\ k > 1
     /\ tables[allPools[k]]
     /\ HasGuid(rows[allPools[k]], ex.guid)
     /\ ~\E q \in DOMAIN qlog : qlog[q].pool = allPools[k] /\ qlog[q].res = "failed")
  => ex.ret = TRUE

\* C8 witness: the primary and CockroachDB threw, Neon matched.
WitC8 ==
  /\ ex.pc = "done"
  /\ ex.ret = TRUE
  /\ qlog = << [pool |-> pool, res |-> "failed"],
               [pool |-> cockroachPool, res |-> "failed"],
               [pool |-> neonPool, res |-> "match"] >>

\* C9: isGuidExists returns false whenever no pool stores the guid, whichever
\* queries throw.
InvC9 ==
  (ex.pc = "done" /\ \A p \in PoolNames : ~HasGuid(rows[p], ex.guid))
  => ex.ret = FALSE

\* C9 witness: every pool answered, none stores the guid, the result is
\* false.
WitC9 ==
  /\ ex.pc = "done"
  /\ ex.ret = FALSE
  /\ \A p \in PoolNames : health[p] = "up" /\ tables[p] /\ ~HasGuid(rows[p], ex.guid)
  /\ Len(qlog) = 3
  /\ \A q \in DOMAIN qlog : qlog[q].res = "nomatch"

\* C10: isGuidExists queries the pools in registry order, one query per
\* pool; a match is the last query of the call; a query that throws is
\* followed by the next pool's query.
InvC10 ==
  /\ \A q \in DOMAIN qlog : q \in DOMAIN allPools /\ qlog[q].pool = allPools[q]
  /\ \A q \in DOMAIN qlog :
       qlog[q].res = "match" => (q = Len(qlog) /\ ex.pc = "done" /\ ex.ret = TRUE)
  /\ ex.pc = "done" =>
       (qlog # << >> /\ (qlog[Len(qlog)].res = "match" \/ Len(qlog) = Len(allPools)))

\* C10 witness: the primary threw, CockroachDB matched, and Neon, which
\* stores the guid too, was never queried.
WitC10 ==
  /\ ex.pc = "done"
  /\ qlog = << [pool |-> pool, res |-> "failed"],
               [pool |-> cockroachPool, res |-> "match"] >>
  /\ tables[neonPool] /\ HasGuid(rows[neonPool], ex.guid)

\* C12: testAllConnections returns one entry per registered pool, each a
\* record {name, connected, error?} whose connected is false exactly for the
\* pools whose probe threw.
InvC12 ==
  tc.pc = "returned" =>
    /\ Len(tc.ret) = Len(allPools)
    /\ \A k \in DOMAIN tc.ret :
         /\ DOMAIN tc.ret[k] \in {{"name", "connected"}, {"name", "connected", "error"}}
         /\ tc.ret[k].name = allPools[k]
         /\ tc.ret[k].connected = tc.promises[allPools[k]].connected

\* What holds instead: the fields are one level down, under value.
InvC12Wrapped ==
  tc.pc = "returned" =>
    /\ Len(tc.ret) = Len(allPools)
    /\ \A k \in DOMAIN tc.ret :
         /\ DOMAIN tc.ret[k] = {"status", "value"}
         /\ tc.ret[k].status = "fulfilled"
         /\ tc.ret[k].value.name = allPools[k]
         /\ tc.ret[k].value.connected = tc.promises[allPools[k]].connected

\* C13: getAllDatabaseStats returns one snapshot per pool in registry
\* order, whatever the order in which the branches settled; a snapshot is
\* {status: "error", totalPosts: -1} exactly when one of the pool's two
\* queries threw, and otherwise {status: "healthy"} with the pool's row
\* count.
InvC13 ==
  st.pc = "returned" =>
    /\ Len(st.ret) = Len(allPools)
    /\ \A k \in DOMAIN st.ret :
         LET p == allPools[k]
             threw == \E q \in DOMAIN st.promises[p].log : ~st.promises[p].log[q]
         IN /\ st.ret[k].name = p
            /\ threw => (st.ret[k].status = "error" /\ st.ret[k].totalPosts = -1)
            /\ ~threw => (st.ret[k].status = "healthy"
                          /\ st.ret[k].totalPosts = Len(rows[p]))

\* C13 witness: the branches settled in reverse registry order; the primary
\* is healthy with two rows, CockroachDB threw on its second query, Neon is
\* healthy and empty.
WitC13 ==
  /\ st.pc = "returned"
  /\ st.order = << neonPool, cockroachPool, pool >>
  /\ st.promises[cockroachPool].log = << TRUE, FALSE >>
  /\ st.ret[1].status = "healthy" /\ st.ret[1].totalPosts = 2
  /\ st.ret[2].status = "error"
  /\ st.ret[3].status = "healthy" /\ st.ret[3].totalPosts = 0

\* C14: a closeAllConnections call invokes end() on every registered pool,
\* whatever the other pools' end() did, and returns only when every one of
\* its end() calls has settled.
InvC14 ==
  \A c \in Closers :
    /\ cl[c].pc # "idle" =>
         \A k \in DOMAIN allPools :
           /\ cl[c].promises[allPools[k]].pc \in {"end", "done"}
           /\ cl[c].promises[allPools[k]].nth >= 1
           /\ endCalls[allPools[k]] >= cl[c].promises[allPools[k]].nth
    /\ cl[c].pc = "returned" =>
         \A k \in DOMAIN allPools : cl[c].promises[allPools[k]].pc = "done"

\* C14 witness: the first call has returned; end() of the primary rejected
\* and the two others resolved.
WitC14 ==
  /\ cl["c1"].pc = "returned"
  /\ cl["c1"].promises[pool] = [pc |-> "done", nth |-> 1, ok |-> FALSE]
  /\ cl["c1"].promises[cockroachPool] = [pc |-> "done", nth |-> 1, ok |-> TRUE]
  /\ cl["c1"].promises[neonPool] = [pc |-> "done", nth |-> 1, ok |-> TRUE]

\* C15: end() is never invoked a second time on the same pool, over any
\* sequence of closeAllConnections calls.
InvC15 == \A p \in PoolNames : endCalls[p] <= 1

\* Within one closeAllConnections call end() is invoked once per pool: the
\* n-th call makes the n-th invocation on every pool.
InvC15PerCall ==
  \A p \in PoolNames :
    endCalls[p] = Cardinality({c \in Closers : cl[c].pc # "idle"})

\* C11: isGuidExists, testAllConnections, getAllDatabaseStats and
\* closeAllConnections never throw to their caller, whichever pools fail
\* their calls: no call ends as "thrown", and a call whose queries have all
\* been answered or have all failed ends by returning.
InvC11 ==
  /\ ex.pc \in {"idle", "primary", "fallback", "done"}
  /\ tc.pc \in {"idle", "running", "returned"}
  /\ st.pc \in {"idle", "running", "returned"}
  /\ \A c \in Closers : cl[c].pc \in {"idle", "running", "returned"}
  /\ (ex.pc # "idle" /\ Len(qlog) = Len(allPools)
        /\ \A k \in DOMAIN qlog : qlog[k].res = "failed")
       => (ex.pc = "done" /\ ~ex.ret)

\* C11 witness: every pool fails every call, and the four operations have
\* all returned.
WitC11 ==
  /\ \A p \in PoolNames : health[p] = "down"
  /\ ex.pc = "done" /\ Len(qlog) = 3
  /\ \A k \in DOMAIN qlog : qlog[k].res = "failed"
  /\ tc.pc = "returned"
  /\ \A k \in DOMAIN tc.ret : ~tc.ret[k].value.connected
  /\ st.pc = "returned"
  /\ \A k \in DOMAIN st.ret : st.ret[k].status = "error"
  /\ cl["c1"].pc = "returned"
  /\ \A p \in PoolNames : ~cl["c1"].promises[p].ok

\* C16: within one savePosts call each pool gets its statements one after
\* another: CREATE TABLE first, then the insert of posts[1], posts[2], ... in
\* that order, a statement being sent only when the one before it has
\* completed, so the call never has two statements in flight on one pool;
\* statements on different pools overlap.
InvC16 ==
  \A p \in PoolNames :
    LET lg == issued["w1"][p]
        br == savePromises["w1"][p]
    IN /\ inflight["w1"][p] <= 1
       /\ inflight["w1"][p] = 1 <=> br.pc \in {"create", "insert"}
       /\ \A k \in DOMAIN lg :
            /\ lg[k].stmt = (IF k = 1 THEN "create" ELSE "insert")
            /\ lg[k].k = k - 1
            /\ k < Len(lg) => lg[k].ok
       /\ br.pc = "create" => lg = << >>
       /\ br.pc = "insert" => Len(lg) = br.i

\* C16 witness: the primary is at its second insert while CockroachDB is
\* still at its CREATE TABLE and Neon has settled: one statement in flight
\* on each of two pools.
WitC16 ==
  /\ spPc["w1"] = "running"
  /\ Len(posts["w1"]) = 3
  /\ savePromises["w1"][pool].pc = "insert" /\ savePromises["w1"][pool].i = 2
  /\ inflight["w1"][pool] = 1
  /\ savePromises["w1"][cockroachPool].pc = "create"
  /\ inflight["w1"][cockroachPool] = 1
  /\ savePromises["w1"][neonPool].pc = "done"
  /\ inflight["w1"][neonPool] = 0

\* C18: when savePosts completes, every pool reported with success: true
\* stores a row for every guid of the batch.
InvC18 ==
  Completed("w1") =>
    \A p \in PoolNames :
      Succeeded("w1", p) =>
        \A k \in DOMAIN posts["w1"] : HasGuid(rows[p], posts["w1"][k].guid)

\* C18 witness: a completed call on a batch of two guids; the primary
\* failed, CockroachDB succeeded and stores both.
WitC18 ==
  /\ Completed("w1")
  /\ {posts["w1"][k].guid : k \in DOMAIN posts["w1"]} = Guids
  /\ Failed("w1", pool)
  /\ Succeeded("w1", cockroachPool)
  /\ Len(rows[cockroachPool]) = 2

\* C19: on a pool, the first statement of a savePosts call that fails is
\* the last one the call sends to that pool; the rows its earlier inserts
\* stored stay, the branch reports success: false, and a failed CREATE TABLE
\* means no insert was sent.
InvC19 ==
  \A p \in PoolNames :
    LET lg == issued["w1"][p]
        br == savePromises["w1"][p]
    IN \A k \in DOMAIN lg :
         /\ ~lg[k].ok =>
              /\ k = Len(lg)
              /\ br.pc = "done" /\ ~br.success
              /\ inflight["w1"][p] = 0
              /\ k = 1 => rows[p] = << >>
         /\ (lg[k].ok /\ k > 1) => HasGuid(rows[p], posts["w1"][lg[k].k].guid)

\* C19 witness: the call has completed; on the primary the second insert
\* failed and the row of the first is stored, on CockroachDB CREATE TABLE
\* failed and nothing else was sent.
WitC19 ==
  /\ Completed("w1")
  /\ Len(issued["w1"][pool]) = 3 /\ ~issued["w1"][pool][3].ok
  /\ Len(posts["w1"]) = 3
  /\ Len(rows[pool]) = 1 /\ rows[pool][1] = posts["w1"][1]
  /\ Failed("w1", pool)
  /\ Len(issued["w1"][cockroachPool]) = 1 /\ ~issued["w1"][cockroachPool][1].ok
  /\ Failed("w1", cockroachPool)

\* C17: after a savePosts call that returned for a batch containing guid g,
\* a later isGuidExists(g) in which every query was answered returns true,
\* whichever pools failed during the write.
InvC17 ==
  ( /\ spPc["w1"] = "returned"
    /\ ex.pc = "done"
    /\ \E k \in DOMAIN posts["w1"] : posts["w1"][k].guid = ex.guid
    /\ \A k \in DOMAIN qlog : qlog[k].res # "failed" )
  => ex.ret

\* C17 witness: the write failed on the primary after its table was
\* created and succeeded on CockroachDB; the read was answered "no row" by
\* the primary and found the guid on CockroachDB.
WitC17 ==
  /\ spPc["w1"] = "returned"
  /\ Failed("w1", pool) /\ Succeeded("w1", cockroachPool)
  /\ ex.pc = "done" /\ ex.ret
  /\ \E k \in DOMAIN posts["w1"] : posts["w1"][k].guid = ex.guid
  /\ qlog = << [pool |-> pool, res |-> "nomatch"],
               [pool |-> cockroachPool, res |-> "match"] >>

\* C20: isGuidExists, testAllConnections and getAllDatabaseStats leave the
\* tables and rows of every pool as they were, only a statement of savePosts
\* changes them, and no step of any operation changes allPools, which stays
\* the same non-empty sequence.
ThmC20 ==
  /\ [](allPools = << pool, cockroachPool, neonPool >>)
  /\ [](Completed("w1") => rows = hist[Len(hist)].rows)
  /\ [][ /\ allPools' = allPools
         /\ (ex' # ex \/ qlog' # qlog \/ tc' # tc \/ st' # st \/ cl' # cl)
              => (rows' = rows /\ tables' = tables)
         /\ (rows' # rows \/ tables' # tables) => issued' # issued ]_vars

\* C20 witness: the write has stored rows on every pool, and the three
\* reading operations have since run to their end on them.
WitC20 ==
  /\ spPc["w1"] = "returned"
  /\ \A p \in PoolNames : Len(rows[p]) = 1
  /\ ex.pc = "done" /\ ex.ret /\ Len(qlog) = 1
  /\ tc.pc = "returned"
  /\ st.pc = "returned"
  /\ \A k \in DOMAIN st.ret : st.ret[k].totalPosts = 1
  /\ rows = hist[Len(hist)].rows
  /\ allPools = << pool, cockroachPool, neonPool >>

====
